---- MODULE Spec2Model ----
(***************************************************************************)
(* The monitoring engine of src/electron/main.js: the ping supervisor      *)
(* (startPing, its stdout 'data', 'close' and 'error' handlers, stopPing)  *)
(* and the speedtest runner with its scheduler (runSpeedtest,               *)
(* startSpeedtestScheduler).                                                *)
(*                                                                         *)
(* Every handler of the main process runs to completion on one event loop, *)
(* so each is one action.  The files under DATA_DIR are sequences of rows. *)
(* Wall-clock time is Math.floor(Date.now() / 1000), advanced by Tick.     *)
(*                                                                         *)
(* Appending a row is taken to succeed.  Creating the speedtest file's     *)
(* header (main.js:153-155) may throw: it is the one write that sits       *)
(* between setting speedtestRunning and launching the command, so its      *)
(* failure decides whether the guard is ever cleared.                      *)
(***************************************************************************)
EXTENDS Integers, Sequences, FiniteSets, TLC

\* ------------------------------------------------------------------ bounds
MaxTime    == 4   \* the clock runs over 1..MaxTime
MaxSamples == 2   \* ping responses handled in one run of the model
MaxProcs   == 2   \* ping subprocesses spawned in one session that takes samples
MaxPids    == 3   \* ping subprocesses spawned in one run of the model
MaxSeq     == 3   \* icmp_seq values 0..MaxSeq
MaxCalls   == 3   \* runSpeedtest() invocations in one run of the model
MaxRows    == 3   \* rows of the ping file the statistics are asked about
MaxInserts == 1   \* rows inserted into the database in one run of the model
MaxElapse  == 1   \* seconds that pass on the database's clock
MaxRecent  == 2   \* recent rows of a small database
MaxOver    == 1   \* rows by which a large database exceeds a history cap
MaxLines   == 2   \* lines of ping's output in one 'data' notification
MaxTied    == 2   \* rows of a database written within two seconds

\* ------------------------------------------------------- program constants
TIMEOUT_THRESHOLD == 2
PING_AVG_LINES    == 100
NA                == -1   \* the text 'N/A' of a numeric column
NaN               == -2   \* parseFloat of a non-numeric text
NULL                == -1   \* SQL NULL in a numeric column
DAY                 == 86400
PING_RETENTION_DAYS == 7
LOG_RETENTION_DAYS  == 30
PING_HISTORY_LIMIT  == 120
GAP_HISTORY_LIMIT   == 60

Latencies == {100}        \* time=... values of a response, in tenths of a ms
TTLs      == {64}
Seqs      == 0..MaxSeq
Pids      == 1..MaxPids

VARIABLES
  appReady,          \* the app.whenReady() callback has run
  clock,             \* Math.floor(Date.now() / 1000)
  pingProcess,       \* the ChildProcess held by main.js:43; 0 is null
  procState,         \* every ChildProcess ever spawned: what the OS and Node
                     \* have done with it
  lastPingTime,      \* main.js:44
  lastSeq,           \* main.js:45
  timers,            \* the timers of the main process that are armed
  pingLog,           \* rows of the files ping_<date>.csv, oldest first: a
                     \* row is in the file of the date of its ts
  gapLog,            \* rows of ping_gaps_<date>.csv
  issueLog,          \* lines of network_issues.log
  speedtestLog,      \* rows of speedtest_<date>.csv
  speedtestLogExists,\* the speedtest file exists (its header is written)
  rendererEvents,    \* calls of sendToRenderer, in order
  speedtestRunning,  \* main.js:137
  execPending,       \* exec() commands whose callback has not run yet, each
                     \* with the ts and pingAvg its closure captured
  resolved,          \* values the promises of runSpeedtest() resolved with
  calls,             \* runSpeedtest() invocations so far
  sinceStop,         \* history: stopPing() ran and startPing() has not since
  arrived,           \* history: a response was handled since the last spawn
  db,                \* database.js:5, the open database: its four tables
  reply              \* what the last statistics or history request returned

pingVars  == <<pingProcess, procState, lastPingTime, lastSeq>>
pingFiles == <<pingLog, gapLog>>
speedVars == <<speedtestLog, speedtestLogExists, speedtestRunning,
               execPending, resolved, calls>>
queryVars == <<db, reply>>
vars == <<appReady, clock, pingProcess, procState, lastPingTime, lastSeq,
          timers, pingLog, gapLog, issueLog, speedtestLog,
          speedtestLogExists, rendererEvents, speedtestRunning, execPending,
          resolved, calls, sinceStop, arrived, db, reply>>

Last(s) == s[Len(s)]

\* The date of a second, as toISOString().split('T')[0] gives it.
DateOf(ts) == ts \div DAY

\* A ping file left by an earlier session of the same day.
PriorPingLogs ==
  { <<>>,
    <<[ts |-> 1, time |-> 100, seq |-> 1, ttl |-> 64],
      [ts |-> 1, time |-> 250, seq |-> 2, ttl |-> 64]>> }

\* database.js:21-73: the four tables of a database just created, and the
\* AUTOINCREMENT counter of each.
EmptyDb ==
  [pings |-> <<>>, gaps |-> <<>>, speedtests |-> <<>>, issues |-> <<>>,
   sqlite_sequence |-> [pings |-> 0, gaps |-> 0, speedtests |-> 0,
                        issues |-> 0]]

\* No request has been answered yet.
NoReply == [q |-> "none"]

\* The state once main.js is loaded at second `now`, with the ping file of
\* the day and the database as earlier sessions left them.
BootAt(now, priorPings, priorDb) ==
  /\ appReady = FALSE
  /\ clock = now
  /\ pingProcess = 0
  /\ procState = [p \in Pids |-> "unborn"]
  /\ lastPingTime = 0
  /\ lastSeq = 0
  /\ timers = {}
  /\ pingLog = priorPings
  /\ gapLog = <<>>
  /\ issueLog = <<>>
  /\ speedtestLog = <<>>
  /\ speedtestLogExists = FALSE
  /\ rendererEvents = <<>>
  /\ speedtestRunning = FALSE
  /\ execPending = <<>>
  /\ resolved = <<>>
  /\ calls = 0
  /\ sinceStop = FALSE
  /\ arrived = FALSE
  /\ db = priorDb
  /\ reply = NoReply

Boot(priorPings) == BootAt(1, priorPings, EmptyDb)

Init == Boot(<<>>)

InitPrior == \E prior \in PriorPingLogs : Boot(prior)

\* -------------------------------------------------------------- the clock
Tick ==
  /\ clock < MaxTime
  /\ clock' = clock + 1
  /\ UNCHANGED <<queryVars, appReady, pingVars, timers, pingFiles, issueLog, speedVars,
                 rendererEvents, sinceStop, arrived>>

\* ------------------------------------------------------ ping supervisor
Spawned == {p \in Pids : procState[p] # "unborn"}
NextPid == Cardinality(Spawned) + 1

\* startPing(), main.js:65-125: the guard, the two resets and the spawn.
\* It arms no timer.
startPing ==
  IF pingProcess # 0
    THEN UNCHANGED <<pingVars, arrived>>
    ELSE /\ NextPid \in Pids
         /\ lastPingTime' = clock
         /\ lastSeq' = 0
         /\ pingProcess' = NextPid
         /\ procState' = [procState EXCEPT ![NextPid] = "running"]
         /\ arrived' = FALSE

\* stopPing(), main.js:127-132.
stopPing ==
  IF pingProcess # 0
    THEN /\ procState' = [procState EXCEPT ![pingProcess] =
                            IF @ = "running" THEN "killed" ELSE @]
         /\ pingProcess' = 0
         /\ UNCHANGED <<lastPingTime, lastSeq>>
    ELSE UNCHANGED pingVars

\* ipcMain.handle('ping-start'), main.js:409-412.
StartPing ==
  /\ appReady
  /\ startPing
  /\ sinceStop' = FALSE
  /\ UNCHANGED <<queryVars, appReady, clock, timers, pingFiles, issueLog, speedVars,
                 rendererEvents>>

\* ipcMain.handle('ping-stop'), main.js:414-417.
StopPing ==
  /\ appReady
  /\ stopPing
  /\ sinceStop' = TRUE
  /\ UNCHANGED <<queryVars, appReady, clock, timers, pingFiles, issueLog, speedVars,
                 rendererEvents, arrived>>

\* ipcMain.handle('ping-status'), main.js:419-421.
PingStatus == pingProcess # 0

GapDetectedInclusive(gap) == gap >= TIMEOUT_THRESHOLD

\* main.js:92: the gap test.
GapDetected(gap) == gap > TIMEOUT_THRESHOLD

LossDetectedOffByOne(prev, seq) == prev > 0 /\ seq > prev

LossDetectedUnlessGap(prev, seq) ==
  prev > 0 /\ seq > prev + 1 /\ ~GapDetected(clock - lastPingTime)

\* main.js:100-102: the packet-loss test.
LossDetected(prev, seq) == prev > 0 /\ seq > prev + 1

\* main.js:101-103: the number of packets lost.
NumLost(prev, seq) == seq - (prev + 1)

LastSeqIfHigher(prev, seq) == IF seq > prev THEN seq ELSE prev

\* main.js:108: lastSeq = seq.
NextLastSeq(prev, seq) == seq

\* The stdout 'data' handler on a line that matches the pattern,
\* main.js:73-115.  The handler belongs to the ChildProcess p and reads no
\* pingProcess: it runs for as long as p's pipe delivers data, which a
\* kill() does not end.
DataHandler(p, seq, ttl, time) ==
  /\ procState[p] \in {"running", "killed"}
  /\ Len(pingLog) < MaxSamples
  /\ LET gap    == clock - lastPingTime
         isGap  == lastPingTime > 0 /\ GapDetected(gap)
         isLoss == LossDetected(lastSeq, seq)
         lost   == NumLost(lastSeq, seq)
         gapIssue  == IF isGap
                        THEN <<[type |-> "TIMEOUT", n |-> gap,
                                seqFrom |-> lastSeq, seqTo |-> seq]>>
                        ELSE <<>>
         lossIssue == IF isLoss
                        THEN <<[type |-> "PACKET_LOSS", n |-> lost,
                                seqFrom |-> lastSeq, seqTo |-> seq]>>
                        ELSE <<>>
         gapEvent  == IF isGap
                        THEN <<[channel |-> "ping-timeout", status |-> "",
                                n |-> gap, seqFrom |-> lastSeq, seqTo |-> seq]>>
                        ELSE <<>>
         lossEvent == IF isLoss
                        THEN <<[channel |-> "packet-loss", status |-> "", n |-> lost,
                                seqFrom |-> lastSeq, seqTo |-> seq]>>
                        ELSE <<>>
     IN
     /\ pingLog' = Append(pingLog, [ts |-> clock, time |-> time,
                                    seq |-> seq, ttl |-> ttl])
     /\ gapLog' = IF isGap
                    THEN Append(gapLog, [ts |-> clock, gap |-> gap,
                                         seqFrom |-> lastSeq, seqTo |-> seq])
                    ELSE gapLog
     /\ issueLog' = issueLog \o gapIssue \o lossIssue
     /\ rendererEvents' = rendererEvents \o gapEvent \o lossEvent
                            \o <<[channel |-> "ping-result", status |-> "",
                                  n |-> time,
                                  seqFrom |-> seq, seqTo |-> seq]>>
     /\ lastPingTime' = clock
     /\ lastSeq' = NextLastSeq(lastSeq, seq)
  /\ arrived' = TRUE
  /\ UNCHANGED <<queryVars, appReady, clock, pingProcess, procState, timers, speedVars,
                 sinceStop>>

\* The stdout 'data' handler on a line that does not match (a header, a
\* summary), main.js:77-78: nothing happens.
DataIgnored(p) ==
  /\ procState[p] \in {"running", "killed"}
  /\ UNCHANGED vars

\* The 'close' handler of the ChildProcess p, main.js:117-119.  It clears
\* pingProcess whichever ChildProcess that variable holds by then.
CloseHandler(p) ==
  /\ procState[p] \in {"running", "killed", "errored"}
  /\ procState' = [procState EXCEPT ![p] = "closed"]
  /\ pingProcess' = 0
  /\ UNCHANGED <<queryVars, appReady, clock, lastPingTime, lastSeq, timers, pingFiles,
                 issueLog, speedVars, rendererEvents, sinceStop, arrived>>

\* The 'error' handler of the ChildProcess p, main.js:121-124: the spawn
\* failed.
ErrorHandler(p) ==
  /\ procState[p] = "running"
  /\ procState' = [procState EXCEPT ![p] = "errored"]
  /\ issueLog' = Append(issueLog, [type |-> "PING_ERROR", n |-> 0,
                                   seqFrom |-> 0, seqTo |-> 0])
  /\ pingProcess' = 0
  /\ UNCHANGED <<queryVars, appReady, clock, lastPingTime, lastSeq, timers, pingFiles,
                 speedVars, rendererEvents, sinceStop, arrived>>

\* startSpeedtestScheduler(), main.js:465-475.
startSpeedtestScheduler == timers' = timers \cup {"warmup", "speedtestTimer"}

\* The app.whenReady() callback, main.js:487-501.
AppReady ==
  /\ ~appReady
  /\ appReady' = TRUE
  /\ startPing
  /\ startSpeedtestScheduler
  /\ UNCHANGED <<queryVars, clock, pingFiles, issueLog, speedVars,
                 rendererEvents, sinceStop>>

\* stopSpeedtestScheduler(), main.js:477-482: clearInterval of the periodic
\* timer.  The handle of the warm-up setTimeout was not kept (main.js:467),
\* so nothing here refers to it.
stopSpeedtestScheduler == timers' = timers \ {"speedtestTimer"}

\* app.on('window-all-closed'), main.js:503-509, on macOS
\* (process.platform === 'darwin'), where the handler calls no app.quit()
\* and the main process keeps running without a window.
WindowAllClosed ==
  /\ appReady
  /\ stopPing
  /\ stopSpeedtestScheduler
  /\ sinceStop' = TRUE
  /\ UNCHANGED <<queryVars, appReady, clock, pingFiles, issueLog, speedVars,
                 rendererEvents, arrived>>

\* ------------------------------------------------------------ speedtest
\* getPingLog(), main.js:21-24: the file of today's date, by its rows.
getPingLog == SelectSeq(pingLog, LAMBDA r : DateOf(r.ts) = DateOf(clock))

\* main.js:157-168: the mean of the time column of the last 100 lines of the
\* ping file, as toFixed(2) prints it (here in hundredths of a ms), or 'N/A'.
RECURSIVE SumTimes(_)
SumTimes(rows) ==
  IF rows = <<>> THEN 0 ELSE rows[1].time + SumTimes(Tail(rows))

LastLines(rows, n) ==
  IF Len(rows) <= n THEN rows ELSE SubSeq(rows, Len(rows) - n + 1, Len(rows))

PingAvg(rows) ==
  LET pings == LastLines(rows, PING_AVG_LINES)
  IN  IF Len(pings) = 0
        THEN NA
        ELSE (SumTimes(pings) * 20 + Len(pings)) \div (2 * Len(pings))

StatusEvent(status) ==
  [channel |-> "speedtest-status", status |-> status, n |-> 0,
   seqFrom |-> 0, seqTo |-> 0]

AlreadyRunning == [success |-> FALSE, error |-> "Speedtest already running"]

NeverRejected == FALSE

\* main.js:141: the in-flight guard.
Rejected == speedtestRunning

\* runSpeedtest() up to the return of the promise, main.js:139-170.
\* headerFails: fs.writeFileSync of the header throws (it is called only
\* when the file does not exist); the executor is left there, with the guard
\* set and no command launched, and the promise is rejected.
runSpeedtest(headerFails) ==
  /\ calls < MaxCalls
  /\ calls' = calls + 1
  /\ IF Rejected
       THEN /\ resolved' = Append(resolved, AlreadyRunning)
            /\ UNCHANGED <<speedtestRunning, rendererEvents,
                           speedtestLogExists, execPending>>
       ELSE /\ speedtestRunning' = TRUE
            /\ rendererEvents' = Append(rendererEvents, StatusEvent("running"))
            /\ IF ~speedtestLogExists /\ headerFails
                 THEN UNCHANGED <<speedtestLogExists, execPending>>
                 ELSE /\ speedtestLogExists' = TRUE
                      /\ execPending' =
                           Append(execPending,
                                  [ts |-> clock, pingAvg |-> PingAvg(getPingLog)])
            /\ UNCHANGED resolved
  /\ UNCHANGED <<queryVars, appReady, clock, pingVars, pingFiles, issueLog,
                 speedtestLog, sinceStop, arrived>>

\* ipcMain.handle('speedtest-run'), main.js:423-425.
SpeedtestRun(headerFails) ==
  /\ appReady
  /\ runSpeedtest(headerFails)
  /\ UNCHANGED timers

\* The setTimeout callback of startSpeedtestScheduler, main.js:467-469.
WarmupFire(headerFails) ==
  /\ "warmup" \in timers
  /\ timers' = timers \ {"warmup"}
  /\ runSpeedtest(headerFails)

\* The setInterval callback of startSpeedtestScheduler, main.js:472-474.
IntervalFire(headerFails) ==
  /\ "speedtestTimer" \in timers
  /\ UNCHANGED timers
  /\ runSpeedtest(headerFails)

\* ipcMain.handle('speedtest-status'), main.js:427-429.
SpeedtestStatus == speedtestRunning

\* What `speedtest-cli --csv` printed, by the columns main.js reads:
\* a well-formed line, no output at all, and lines whose throughput or
\* latency column is not a number.
Stdouts ==
  { [server |-> "Telkom", latency |-> "23.5", download |-> "52000000",
     upload |-> "11000000"],
    [server |-> "", latency |-> "", download |-> "", upload |-> ""],
    [server |-> "Telkom", latency |-> "23.5", download |-> "abc",
     upload |-> "11000000"],
    [server |-> "Telkom", latency |-> "n/a", download |-> "52000000",
     upload |-> "11000000"] }

\* The result of the command: an error (a non-zero exit, the 120 s timeout)
\* or its output.
ExecOutcomes ==
  {[error |-> TRUE, stdout |-> [server |-> "", latency |-> "",
                                 download |-> "", upload |-> ""]]}
    \cup {[error |-> FALSE, stdout |-> o] : o \in Stdouts}

\* parseFloat on the texts of Stdouts.
ParseFloat(text) ==
  CASE text = "52000000" -> 52000000
    [] text = "11000000" -> 11000000
    [] text = "23.5"     -> 23
    [] OTHER             -> NaN

\* main.js:185-186: (parseFloat(part || 0) / 1000000).toFixed(2), in
\* hundredths of a Mbit/s.
ToMbps(part) ==
  LET bits == IF part = "" THEN 0 ELSE ParseFloat(part)
  IN  IF bits = NaN THEN NaN ELSE bits \div 10000

\* main.js:182-188: the row of a command that returned without an error.
ParsedRow(job, stdout) ==
  [ts |-> job.ts, pingAvg |-> job.pingAvg,
   server   |-> IF stdout.server = "" THEN "Unknown" ELSE stdout.server,
   latency  |-> IF stdout.latency = "" THEN "0" ELSE stdout.latency,
   download |-> ToMbps(stdout.download),
   upload   |-> ToMbps(stdout.upload)]

\* main.js:174: the row of a failed command.
FailedRow(job) ==
  [ts |-> job.ts, pingAvg |-> job.pingAvg, server |-> "N/A",
   latency |-> "N/A", download |-> NA, upload |-> NA]

RemoveAt(s, i) == SubSeq(s, 1, i - 1) \o SubSeq(s, i + 1, Len(s))

\* The callback of exec(), main.js:170-199, for the i-th pending command.
\* Nothing in the try block throws on any output, so the catch block
\* (SPEEDTEST_PARSE_ERROR) runs for no outcome.
ExecCallback(i, outcome) ==
  /\ i \in 1..Len(execPending)
  /\ speedtestRunning' = FALSE
  /\ execPending' = RemoveAt(execPending, i)
  /\ IF outcome.error
       THEN /\ speedtestLog' = Append(speedtestLog, FailedRow(execPending[i]))
            /\ issueLog' = Append(issueLog,
                                  [type |-> "SPEEDTEST_FAIL", n |-> 0,
                                   seqFrom |-> 0, seqTo |-> 0])
            /\ rendererEvents' = Append(rendererEvents, StatusEvent("failed"))
            /\ resolved' = Append(resolved,
                                  [success |-> FALSE, error |-> "exec error"])
       ELSE /\ speedtestLog' =
                 Append(speedtestLog, ParsedRow(execPending[i], outcome.stdout))
            /\ rendererEvents' =
                 Append(rendererEvents, StatusEvent("completed"))
            /\ resolved' = Append(resolved, [success |-> TRUE, error |-> ""])
            /\ UNCHANGED issueLog
  /\ UNCHANGED <<queryVars, appReady, clock, pingVars, timers, pingFiles,
                 speedtestLogExists, calls, sinceStop, arrived>>

\* ------------------------------------------------------------ statistics
\* The statistics requests of main.js read the ping file of the day.  They
\* are asked at second StatNow about a file whose rows were written at the
\* seconds StatTimes: one row is older than one minute, the other exactly
\* one minute old.
StatNow       == 121
StatTimes     == {1, 61}
StatMinutes   == {1, 5}
StatLatencies == {100, 101, 234}
StatSeqs      == {1, 2, 5}

StatRows == [ts : StatTimes, time : StatLatencies, seq : StatSeqs, ttl : TTLs]

\* Rows are appended in the order of the clock.
StatFiles ==
  { f \in UNION { [1..n -> StatRows] : n \in 0..MaxRows } :
      \A i \in 1..(Len(f) - 1) : f[i].ts <= f[i + 1].ts }

\* A minute after midnight, with rows written half a minute before and
\* half a minute after midnight.
MidnightNow   == DAY + 60
MidnightTimes == {DAY - 30, DAY + 30}

MidnightRows == [ts : MidnightTimes, time : Latencies, seq : {1, 2}, ttl : TTLs]

MidnightFiles ==
  { f \in UNION { [1..n -> MidnightRows] : n \in 0..MaxRows } :
      \A i \in 1..(Len(f) - 1) : f[i].ts <= f[i + 1].ts }

RECURSIVE Sum(_)
Sum(xs) == IF xs = <<>> THEN 0 ELSE Head(xs) + Sum(Tail(xs))

RECURSIVE SumSq(_)
SumSq(xs) == IF xs = <<>> THEN 0 ELSE Head(xs) * Head(xs) + SumSq(Tail(xs))

Min(S) == CHOOSE x \in S : \A y \in S : x <= y
Max(S) == CHOOSE x \in S : \A y \in S : x >= y
Range(xs) == {xs[i] : i \in 1..Len(xs)}

\* pings.sort((a, b) => a - b), main.js:227.
RECURSIVE Insert(_, _)
Insert(x, sorted) ==
  IF sorted = <<>>
    THEN <<x>>
    ELSE IF x <= Head(sorted)
           THEN <<x>> \o sorted
           ELSE <<Head(sorted)>> \o Insert(x, Tail(sorted))

RECURSIVE SortAsc(_)
SortAsc(xs) == IF xs = <<>> THEN <<>> ELSE Insert(Head(xs), SortAsc(Tail(xs)))

\* Number.prototype.toFixed of the quotient num / den >= 0, as the count of
\* units of the last digit printed: the nearest count, the larger on a tie.
ToFixed(num, den) == (2 * num + den) \div (2 * den)

\* num / den lies halfway between two counts.
IsTie(num, den) == (2 * num) % (2 * den) = den

\* toFixed of the binary64 number a computation left for num / den.  When
\* num / den is a decimal tie the double lies a little above or below it (or
\* on it), and that decides which neighbour is printed: `up` is that fact.
ToFixedOfDouble(num, den, up) ==
  IF IsTie(num, den)
    THEN (num \div den) + (IF up THEN 1 ELSE 0)
    ELSE ToFixed(num, den)

\* main.js:207-223: the latencies of the rows of today's file that are not
\* older than `since`.
PingsSince(since) ==
  LET rows == SelectSeq(getPingLog, LAMBDA r : r.ts >= since)
  IN  [i \in 1..Len(rows) |-> rows[i].time]

MedOffset(pings, up) == pings[Len(pings) \div 2 + 1]

\* main.js:230-232 and 238: the median of the sorted latencies, as
\* toFixed(1) prints it (tenths of a ms).
Med(pings, up) ==
  LET len == Len(pings)
  IN  IF len % 2 = 1
        THEN pings[len \div 2 + 1]
        ELSE ToFixedOfDouble(pings[len \div 2] + pings[len \div 2 + 1], 2, up)

\* main.js:233-234 and 239: the population standard deviation, as toFixed(1)
\* prints it: the count s of tenths with (s - 1/2)^2 <= variance < (s + 1/2)^2.
Std(pings) ==
  LET len == Len(pings)
      v4  == 4 * (len * SumSq(pings) - Sum(pings) * Sum(pings))
  IN  CHOOSE s \in 0..Max(Range(pings)) :
        /\ s = 0 \/ (2 * s - 1) * (2 * s - 1) * len * len <= v4
        /\ (2 * s + 1) * (2 * s + 1) * len * len > v4

\* main.js:208, 225, 245: the 'N/A' result.
NoPingStats ==
  [avg |-> NA, med |-> NA, std |-> NA, min |-> NA, max |-> NA, count |-> 0]

\* calcPingStats(minutes), main.js:206-247.  avg, med and std are in tenths
\* of a ms (toFixed(1)), min and max in whole ms (toFixed(0)).
calcPingStats(minutes, upAvg, upMed) ==
  LET pings == SortAsc(PingsSince(clock - minutes * 60))
  IN  IF Len(pings) = 0
        THEN NoPingStats
        ELSE [avg   |-> ToFixedOfDouble(Sum(pings), Len(pings), upAvg),
              med   |-> Med(pings, upMed),
              std   |-> Std(pings),
              min   |-> ToFixed(Min(Range(pings)), 10),
              max   |-> ToFixed(Max(Range(pings)), 10),
              count |-> Len(pings)]

\* main.js:266 and database.js:238: ((lost / expected) * 100).toFixed(1), in
\* tenths of a percent.  With expected = 0 the quotient is 0 / 0.
Percent(lost, expected) ==
  IF expected = 0
    THEN NaN
    ELSE IF lost = 0 THEN 0 ELSE ToFixed(lost * 1000, expected)

\* calcPacketLoss(), main.js:249-273.
calcPacketLoss ==
  LET seqs == [i \in 1..Len(getPingLog) |-> getPingLog[i].seq]
  IN  IF Len(seqs) = 0
        THEN [percent |-> 0, lost |-> 0, total |-> 0]
        ELSE LET firstSeq == seqs[1]
                 finalSeq == seqs[Len(seqs)]
                 expected == finalSeq - firstSeq + 1
                 lost     == Max({0, expected - Len(seqs)})
             IN  [percent |-> Percent(lost, expected), lost |-> lost,
                  total |-> expected]

\* Everything a request for statistics leaves alone.
answerFrame ==
  <<appReady, clock, pingVars, timers, pingFiles, issueLog, speedVars,
    rendererEvents, sinceStop, arrived, db>>

\* ipcMain.handle('get-ping-stats'), main.js:431-433.
GetPingStats(minutes, upAvg, upMed) ==
  /\ appReady
  /\ reply' = [q |-> "get-ping-stats", arg |-> minutes,
               value |-> calcPingStats(minutes, upAvg, upMed)]
  /\ UNCHANGED answerFrame

\* ipcMain.handle('get-packet-loss'), main.js:435-437.
GetPacketLoss ==
  /\ appReady
  /\ reply' = [q |-> "get-packet-loss", arg |-> 0, value |-> calcPacketLoss]
  /\ UNCHANGED answerFrame

\* ------------------------------------------------- the store, database.js
\* Every row takes its timestamp from datetime('now', 'localtime') when it
\* is inserted: `clock`, in seconds.  The requests below are made about
\* second StoreNow, 01:00:45 of day 31.
StoreNow == 31 * DAY + 3645

\* Everything a call of the store leaves alone besides db and reply.
storeFrame ==
  <<appReady, clock, pingVars, timers, pingFiles, issueLog, speedVars,
    rendererEvents, sinceStop, arrived>>

\* A second passes.
Elapse ==
  /\ clock >= StoreNow
  /\ clock < StoreNow + MaxElapse
  /\ clock' = clock + 1
  /\ UNCHANGED <<queryVars, appReady, pingVars, timers, pingFiles, issueLog,
                 speedVars, rendererEvents, sinceStop, arrived>>

\* INSERT INTO table: id is AUTOINCREMENT, timestamp the default.
InsertRow(table, row) ==
  LET id == db.sqlite_sequence[table] + 1
  IN  [db EXCEPT ![table] = Append(@, [id |-> id, timestamp |-> clock] @@ row),
                 !.sqlite_sequence[table] = id]

\* insertPing(timeMs, seq, ttl, isTimeout = false), database.js:86-90.
insertPing(timeMs, seq, ttl, isTimeout) ==
  InsertRow("pings", [time_ms |-> timeMs, seq |-> seq, ttl |-> ttl,
                      is_timeout |-> IF isTimeout THEN 1 ELSE 0])

\* insertTimeout(), database.js:92-96.
insertTimeout ==
  InsertRow("pings", [time_ms |-> NULL, seq |-> NULL, ttl |-> NULL,
                      is_timeout |-> 1])

\* insertGap(gapSeconds, seqFrom, seqTo), database.js:245-248.
insertGap(gapSeconds, seqFrom, seqTo) ==
  InsertRow("gaps", [gap_seconds |-> gapSeconds, seq_from |-> seqFrom,
                     seq_to |-> seqTo])

\* insertSpeedtest(server, latency, download, upload, pingAvg),
\* database.js:295-301.
insertSpeedtest(server, latency, download, upload, pingAvg) ==
  InsertRow("speedtests", [server |-> server, latency_ms |-> latency,
                           download_mbps |-> download,
                           upload_mbps |-> upload, ping_avg_ms |-> pingAvg])

\* logIssue(type, message) of the store, database.js:362-365.
logIssue(type, message) ==
  InsertRow("issues", [type |-> type, message |-> message])

\* Rows inserted since StoreNow, over the four tables.
Fresh ==
  LET new(rows) == Len(SelectSeq(rows, LAMBDA r : r.timestamp >= StoreNow))
  IN  new(db.pings) + new(db.gaps) + new(db.speedtests) + new(db.issues)

\* A call of one of the insert functions the module exports.
InsertPing(timeMs, seq, ttl, isTimeout) ==
  /\ Fresh < MaxInserts
  /\ db' = insertPing(timeMs, seq, ttl, isTimeout)
  /\ UNCHANGED <<reply, storeFrame>>

InsertTimeout ==
  /\ Fresh < MaxInserts
  /\ db' = insertTimeout
  /\ UNCHANGED <<reply, storeFrame>>

InsertGap(gapSeconds, seqFrom, seqTo) ==
  /\ Fresh < MaxInserts
  /\ db' = insertGap(gapSeconds, seqFrom, seqTo)
  /\ UNCHANGED <<reply, storeFrame>>

InsertSpeedtest ==
  /\ Fresh < MaxInserts
  /\ db' = insertSpeedtest("Telkom", 235, 5200, 1100, 100)
  /\ UNCHANGED <<reply, storeFrame>>

LogIssue(type) ==
  /\ Fresh < MaxInserts
  /\ db' = logIssue(type, "")
  /\ UNCHANGED <<reply, storeFrame>>

ExpiredInclusive(timestamp, days) == timestamp <= clock - days * DAY

\* database.js:370-373: timestamp < datetime('now', 'localtime', '-N days').
Expired(timestamp, days) == timestamp < clock - days * DAY

Kept(rows, days) == SelectSeq(rows, LAMBDA r : ~Expired(r.timestamp, days))

\* cleanupOldData(), database.js:368-375: the database after the four
\* DELETE statements.
cleanupOldData ==
  [db EXCEPT !.pings      = Kept(@, PING_RETENTION_DAYS),
             !.gaps       = Kept(@, PING_RETENTION_DAYS),
             !.speedtests = Kept(@, LOG_RETENTION_DAYS),
             !.issues     = Kept(@, LOG_RETENTION_DAYS)]

CleanupOldData ==
  /\ db' = cleanupOldData
  /\ UNCHANGED <<reply, storeFrame>>

\* A set of integers as the ascending sequence of its elements.
RECURSIVE Ascending(_)
Ascending(S) ==
  IF S = {} THEN <<>> ELSE LET m == Min(S) IN <<m>> \o Ascending(S \ {m})

Reverse(xs) == [i \in 1..Len(xs) |-> xs[Len(xs) + 1 - i]]

\* LIMIT n.
Limit(xs, n) == IF Len(xs) <= n THEN xs ELSE SubSeq(xs, 1, n)

\* WHERE timestamp >= datetime('now', 'localtime', '-' || ? || ' minutes').
Since(rows, minutes) ==
  SelectSeq(rows, LAMBDA r : r.timestamp >= clock - minutes * 60)

\* A database someone kept running: rows of every table at the given ages
\* (seconds before StoreNow), oldest first.
AgedDb(ages) ==
  LET at   == Reverse(Ascending(ages))
      n    == Len(at)
      ts(k) == StoreNow - at[k]
  IN  [pings      |-> [k \in 1..n |->
                         [id |-> k, timestamp |-> ts(k), time_ms |-> 100,
                          seq |-> k, ttl |-> 64, is_timeout |-> 0]],
       gaps       |-> [k \in 1..n |->
                         [id |-> k, timestamp |-> ts(k), gap_seconds |-> 3,
                          seq_from |-> k, seq_to |-> k + 1]],
       speedtests |-> [k \in 1..n |->
                         [id |-> k, timestamp |-> ts(k), server |-> "Telkom",
                          latency_ms |-> 235, download_mbps |-> 5200,
                          upload_mbps |-> 1100, ping_avg_ms |-> 100]],
       issues     |-> [k \in 1..n |->
                         [id |-> k, timestamp |-> ts(k), type |-> "TIMEOUT",
                          message |-> ""]],
       sqlite_sequence |-> [pings |-> n, gaps |-> n, speedtests |-> n,
                            issues |-> n]]

\* Ages on both sides of the two retention periods, and a row a second old.
Ages ==
  { LOG_RETENTION_DAYS * DAY + 1, LOG_RETENTION_DAYS * DAY,
    PING_RETENTION_DAYS * DAY + 1, PING_RETENTION_DAYS * DAY, 1 }

AgedDbs == { AgedDb(ages) : ages \in SUBSET Ages }

\* ------------------------------------------- the queries of database.js
TruncMs(num, den) == num \div (10 * den)

\* Math.round of a latency kept in tenths of a ms, in whole ms.
RoundMs(num, den) == (2 * num + 10 * den) \div (20 * den)

\* ORDER BY timestamp DESC, database.js:178.  Rows of one second tie, and
\* SQL leaves their order open: idDesc says which way they come out.
ComesBefore(r, other, idDesc) ==
  \/ r.timestamp > other.timestamp
  \/ /\ r.timestamp = other.timestamp
     /\ IF idDesc THEN r.id > other.id ELSE r.id < other.id

OrderDesc(rows, idDesc) ==
  LET n       == Len(rows)
      \* (as a tuple, so that it is computed once)
      rank    == SelectSeq([k \in 1..n |->
                              Cardinality({x \in 1..n :
                                 ComesBefore(rows[x], rows[k], idDesc)})],
                           LAMBDA c : TRUE)
      place   == [p \in 1..n |-> CHOOSE k \in 1..n : rank[k] = p - 1]
  IN  [p \in 1..n |-> rows[place[p]]]

\* database.js:182-189: a point of the realtime history.
RealtimePoint(r) ==
  LET timeout == r.is_timeout = 1
      ms == IF timeout \/ r.time_ms = NULL THEN 0 ELSE RoundMs(r.time_ms, 1)
  IN  [timestamp |-> r.timestamp, avg |-> ms, min |-> ms, max |-> ms,
       timeout |-> timeout]

BucketNearest(timestamp, intervalSec) ==
  ((timestamp + intervalSec \div 2) \div intervalSec) * intervalSec

\* database.js:198 and 281: (strftime('%s', timestamp) / ?) * ?, the start
\* of the bucket in seconds (the query returns it times 1000).
Bucket(timestamp, intervalSec) == (timestamp \div intervalSec) * intervalSec

\* database.js:199-203 and 211-218: a bucket of the aggregated history over
\* the rows grouped into it.
AggregatedPoint(bucket, rows) ==
  LET real  == SelectSeq(rows, LAMBDA r : r.is_timeout = 0)
      times == [i \in 1..Len(real) |-> real[i].time_ms]
  IN  [timestamp |-> bucket,
       avg |-> IF real = <<>> THEN 0 ELSE RoundMs(Sum(times), Len(times)),
       min |-> IF real = <<>> THEN 0 ELSE RoundMs(Min(Range(times)), 1),
       max |-> IF real = <<>> THEN 0 ELSE RoundMs(Max(Range(times)), 1),
       timeouts |-> Len(rows) - Len(real)]

\* GROUP BY strftime('%s', timestamp) / ? ORDER BY timestamp: the buckets
\* of the rows, ascending.
Buckets(rows, intervalSec) ==
  LET keys == {Bucket(rows[i].timestamp, intervalSec) : i \in 1..Len(rows)}
  IN  IF keys = {}
        THEN <<>>
        ELSE LET oldest == Min(keys)
                 steps  == (Max(keys) - oldest) \div intervalSec + 1
             IN  SelectSeq([k \in 1..steps |->
                              oldest + (k - 1) * intervalSec],
                           LAMBDA b : b \in keys)

InBucket(rows, bucket, intervalSec) ==
  SelectSeq(rows, LAMBDA r : Bucket(r.timestamp, intervalSec) = bucket)

\* getPingHistory(minutes, intervalSec), database.js:165-219.
getPingHistory(minutes, intervalSec, idDesc) ==
  LET rows == Since(db.pings, minutes)
  IN  IF intervalSec <= 1
        THEN LET newest == Limit(OrderDesc(rows, idDesc), PING_HISTORY_LIMIT)
             IN  [i \in 1..Len(newest) |-> RealtimePoint(Reverse(newest)[i])]
        ELSE LET groups == Limit(Buckets(rows, intervalSec),
                                 PING_HISTORY_LIMIT)
             IN  [i \in 1..Len(groups) |->
                    AggregatedPoint(groups[i],
                                    InBucket(rows, groups[i], intervalSec))]

\* database.js:273: the width of a gap bucket.
GapInterval(groupBy) == IF groupBy = "hour" THEN 3600 ELSE 60

\* getGapHistory(minutes, groupBy), database.js:272-292.
getGapHistory(minutes, groupBy) ==
  LET rows   == Since(db.gaps, minutes)
      groups == Limit(Buckets(rows, GapInterval(groupBy)), GAP_HISTORY_LIMIT)
  IN  [i \in 1..Len(groups) |->
         LET in == InBucket(rows, groups[i], GapInterval(groupBy))
         IN  [timestamp |-> groups[i], count |-> Len(in),
              totalSec |-> Sum([k \in 1..Len(in) |-> in[k].gap_seconds])]]

\* getPacketLoss(), database.js:221-242: over the rows of today that are
\* not timeouts.
getPacketLoss ==
  LET rows == SelectSeq(db.pings,
                        LAMBDA r : /\ r.timestamp >= clock - (clock % DAY)
                                   /\ r.is_timeout = 0)
      seqs == {rows[i].seq : i \in 1..Len(rows)}
  IN  IF Len(rows) = 0
        THEN [percent |-> 0, lost |-> 0, total |-> 0]
        ELSE LET expected == Max(seqs) - Min(seqs) + 1
                 lost     == Max({0, expected - Len(rows)})
             IN  [percent |-> Percent(lost, expected), lost |-> lost,
                  total |-> expected]

\* ORDER BY time_ms, database.js:119: the values ascending, found by rank.
OrderAsc(xs) ==
  LET n     == Len(xs)
      rank  == SelectSeq([k \in 1..n |->
                            Cardinality({x \in 1..n :
                               \/ xs[x] < xs[k]
                               \/ xs[x] = xs[k] /\ x < k})],
                         LAMBDA c : TRUE)
      place == [p \in 1..n |-> CHOOSE k \in 1..n : rank[k] = p - 1]
  IN  [p \in 1..n |-> xs[place[p]]]

MedianOffsetLower(count) == (count - 1) \div 2

\* database.js:121-125: OFFSET (SELECT COUNT(*) / 2 ...), an integer
\* division.
MedianOffset(count) == count \div 2

\* getPingStats(minutes) of the store, database.js:98-148, over the rows of
\* the window that are not timeouts.  avg, med and std are in tenths of a ms
\* (toFixed(1)), min and max in whole ms (toFixed(0)); a value of 0 is
\* falsy and printed 'N/A'.
getPingStats(minutes, upAvg) ==
  LET rows  == SelectSeq(Since(db.pings, minutes),
                         LAMBDA r : r.is_timeout = 0)
      times == [i \in 1..Len(rows) |-> rows[i].time_ms]
      count == Len(times)
  IN  IF count = 0
        THEN NoPingStats
        ELSE LET sum    == Sum(times)
                 \* ORDER BY time_ms LIMIT 1 OFFSET ...
                 median == OrderAsc(times)[MedianOffset(count) + 1]
                 least  == Min(Range(times))
                 most   == Max(Range(times))
             IN  [avg   |-> IF sum = 0
                              THEN NA
                              ELSE ToFixedOfDouble(sum, count, upAvg),
                  med   |-> IF median = 0 THEN NA ELSE ToFixed(median, 1),
                  std   |-> Std(times),
                  min   |-> IF least = 0 THEN NA ELSE ToFixed(least, 10),
                  max   |-> IF most = 0 THEN NA ELSE ToFixed(most, 10),
                  count |-> count]

\* getRecentPings(count), database.js:150-163: ORDER BY id DESC LIMIT ?,
\* reversed.  The rows of a table are kept here in the order of their ids.
getRecentPings(count) ==
  LET newest == Limit(Reverse(db.pings), count)
  IN  [i \in 1..Len(newest) |->
         LET r == Reverse(newest)[i]
         IN  [ts |-> r.timestamp, time |-> r.time_ms, seq |-> r.seq,
              ttl |-> r.ttl, is_timeout |-> r.is_timeout]]

\* A call of one of the query functions the module exports.
GetRecentPings(count) ==
  /\ reply' = [q |-> "getRecentPings", arg |-> count,
               value |-> getRecentPings(count)]
  /\ UNCHANGED <<db, storeFrame>>

GetPingHistory(minutes, intervalSec, idDesc) ==
  /\ reply' = [q |-> "getPingHistory",
               arg |-> [minutes |-> minutes, interval |-> intervalSec],
               value |-> getPingHistory(minutes, intervalSec, idDesc)]
  /\ UNCHANGED <<db, storeFrame>>

GetGapHistory(minutes, groupBy) ==
  /\ reply' = [q |-> "getGapHistory",
               arg |-> [minutes |-> minutes,
                        interval |-> GapInterval(groupBy)],
               value |-> getGapHistory(minutes, groupBy)]
  /\ UNCHANGED <<db, storeFrame>>

DbGetPingStats(minutes, upAvg) ==
  /\ reply' = [q |-> "getPingStats", arg |-> minutes,
               value |-> getPingStats(minutes, upAvg)]
  /\ UNCHANGED <<db, storeFrame>>

DbGetPacketLoss ==
  /\ reply' = [q |-> "getPacketLoss", arg |-> 0, value |-> getPacketLoss]
  /\ UNCHANGED <<db, storeFrame>>

\* A database whose newest rows are n pings 30 s apart, every third of them
\* a timeout marker, and m gaps a minute apart.
RecentDb(n, m) ==
  [pings |-> [k \in 1..n |->
                IF k % 3 = 0
                  THEN [id |-> k, timestamp |-> StoreNow - 30 * (n + 1 - k),
                        time_ms |-> NULL, seq |-> NULL, ttl |-> NULL,
                        is_timeout |-> 1]
                  ELSE [id |-> k, timestamp |-> StoreNow - 30 * (n + 1 - k),
                        time_ms |-> 100 + 17 * (k % 4), seq |-> k,
                        ttl |-> 64, is_timeout |-> 0]],
   gaps |-> [k \in 1..m |->
               [id |-> k, timestamp |-> StoreNow - 60 * (m + 1 - k),
                gap_seconds |-> 3 + (k % 2), seq_from |-> k, seq_to |-> k + 1]],
   speedtests |-> <<>>,
   issues |-> <<>>,
   sqlite_sequence |-> [pings |-> n, gaps |-> m, speedtests |-> 0,
                        issues |-> 0]]

\* Small databases, and databases that hold as many rows as a history cap
\* and up to MaxOver more.
RecentDbs ==
  { RecentDb(n, m) : n \in 0..MaxRecent, m \in 0..MaxRecent }
    \cup { RecentDb(PING_HISTORY_LIMIT + over, GAP_HISTORY_LIMIT + over) :
             over \in 0..MaxOver }

\* A database whose rows were written in the second before StoreNow (the
\* first `cut` of them) and in the second StoreNow: samples and watchdog
\* markers (insertTimeout) as `kinds` says.
TiedDb(kinds, cut) ==
  [pings |-> [k \in 1..Len(kinds) |->
                LET timestamp == IF k <= cut THEN StoreNow - 1 ELSE StoreNow
                IN  IF kinds[k] = "marker"
                      THEN [id |-> k, timestamp |-> timestamp,
                            time_ms |-> NULL, seq |-> NULL, ttl |-> NULL,
                            is_timeout |-> 1]
                      ELSE [id |-> k, timestamp |-> timestamp,
                            time_ms |-> 100 + 10 * k, seq |-> k, ttl |-> 64,
                            is_timeout |-> 0]],
   gaps |-> <<>>,
   speedtests |-> <<>>,
   issues |-> <<>>,
   sqlite_sequence |-> [pings |-> Len(kinds), gaps |-> 0, speedtests |-> 0,
                        issues |-> 0]]

TiedDbs ==
  { TiedDb(kinds, cut) :
      kinds \in UNION { [1..n -> {"sample", "marker"}] : n \in 0..MaxTied },
      cut \in 0..MaxTied }

HistoryMinutes   == {1, 120}
HistoryIntervals == {1, 30, 60}

\* ------------------------------------------- the output of ping, by lines
\* A line of ping's output: a response, which the pattern of main.js:77
\* matches, or another line (a header, a summary).
Responses == [matches : {TRUE}, seq : Seqs, ttl : TTLs, time : Latencies]
OtherLine == [matches |-> FALSE, seq |-> 0, ttl |-> 0, time |-> 0]
Lines     == Responses \cup {OtherLine}

\* What one 'data' notification carries: the pipe hands over what ping has
\* written since the last one, one line or several.
Chunks == UNION { [1..n -> Lines] : n \in 1..MaxLines }

HasMatch(lines) == \E k \in 1..Len(lines) : lines[k].matches

\* line.match(/icmp_seq=(\d+).*ttl=(\d+).*time=([\d.]+)/), main.js:74-77:
\* the pattern has no g flag, so match() returns the leftmost match in the
\* data, and `.` matches no line break, so that match lies within one line:
\* the first line of the data that matches.
FirstMatch(lines) ==
  lines[Min({k \in 1..Len(lines) : lines[k].matches})]

\* The stdout 'data' handler on a notification that carries `lines`,
\* main.js:73-115.
Data(p, lines) ==
  IF HasMatch(lines)
    THEN DataHandler(p, FirstMatch(lines).seq, FirstMatch(lines).ttl,
                     FirstMatch(lines).time)
    ELSE DataIgnored(p)

\* A session of the supervisor that spawns ping at most MaxProcs times.
PingNext ==
  \/ AppReady
  \/ Tick
  \/ StartPing /\ Cardinality(Spawned') <= MaxProcs
  \/ StopPing
  \/ \E p \in Pids, seq \in Seqs, ttl \in TTLs, time \in Latencies :
       DataHandler(p, seq, ttl, time)
  \/ \E p \in Pids : DataIgnored(p)
  \/ \E p \in Pids : CloseHandler(p)
  \/ \E p \in Pids : ErrorHandler(p)

\* A session in which every spawn of ping succeeds.
SamplesNext ==
  \/ AppReady
  \/ Tick
  \/ StartPing /\ Cardinality(Spawned') <= MaxProcs
  \/ StopPing
  \/ \E p \in Pids, seq \in Seqs, ttl \in TTLs, time \in Latencies :
       DataHandler(p, seq, ttl, time)
  \/ \E p \in Pids : DataIgnored(p)
  \/ \E p \in Pids : CloseHandler(p)

\* A session in which the pipe delivers ping's output in chunks of lines.
ChunksNext ==
  \/ AppReady
  \/ Tick
  \/ StartPing /\ Cardinality(Spawned') <= MaxProcs
  \/ StopPing
  \/ \E p \in Pids, lines \in Chunks : Data(p, lines)
  \/ \E p \in Pids : CloseHandler(p)

\* The starts, the stops and the notifications of the subprocesses alone:
\* up to MaxPids spawns, no output.
LifecycleNext ==
  \/ AppReady
  \/ StartPing
  \/ StopPing
  \/ \E p \in Pids : CloseHandler(p)
  \/ \E p \in Pids : ErrorHandler(p)

SpeedNext ==
  \/ AppReady
  \/ Tick
  \/ \E headerFails \in BOOLEAN : SpeedtestRun(headerFails)
  \/ \E headerFails \in BOOLEAN : WarmupFire(headerFails)
  \/ \E headerFails \in BOOLEAN : IntervalFire(headerFails)
  \/ \E i \in 1..MaxCalls, outcome \in ExecOutcomes : ExecCallback(i, outcome)

\* The speedtest runner and its scheduler on macOS, where the windows can
\* be closed while the main process lives on.
SchedulerNext ==
  \/ AppReady
  \/ Tick
  \/ WindowAllClosed
  \/ \E headerFails \in BOOLEAN : SpeedtestRun(headerFails)
  \/ \E headerFails \in BOOLEAN : WarmupFire(headerFails)
  \/ \E headerFails \in BOOLEAN : IntervalFire(headerFails)
  \/ \E i \in 1..MaxCalls, outcome \in ExecOutcomes : ExecCallback(i, outcome)

SpecPing == Init /\ [][PingNext]_vars

SpecSamples == Init /\ [][SamplesNext]_vars

SpecChunks == Init /\ [][ChunksNext]_vars

SpecLifecycle == Init /\ [][LifecycleNext]_vars

SpecSpeedtest == InitPrior /\ [][SpeedNext]_vars

SpecScheduler == InitPrior /\ [][SchedulerNext]_vars

\* exec() always calls back: the command ends or its 120 s timeout kills it.
SpecSpeedtestFair ==
  SpecSpeedtest
    /\ WF_vars(\E i \in 1..MaxCalls, outcome \in ExecOutcomes :
                 ExecCallback(i, outcome))
\* The statistics requests over a ping file an earlier run of the day left.
StatsNext ==
  \/ AppReady
  \/ \E minutes \in StatMinutes, upAvg \in BOOLEAN, upMed \in BOOLEAN :
       GetPingStats(minutes, upAvg, upMed)
  \/ GetPacketLoss

InitStats == \E file \in StatFiles : BootAt(StatNow, file, EmptyDb)

SpecStats == InitStats /\ [][StatsNext]_vars

\* The statistics requests a minute after midnight, over the ping files of
\* yesterday and of today.
InitMidnight == \E files \in MidnightFiles : BootAt(MidnightNow, files, EmptyDb)

SpecMidnight == InitMidnight /\ [][StatsNext]_vars

\* The writes of the store: the inserts and the retention sweep.
StoreNext ==
  \/ Elapse
  \/ \E timeMs \in Latencies, seq \in {1}, ttl \in TTLs,
        isTimeout \in BOOLEAN : InsertPing(timeMs, seq, ttl, isTimeout)
  \/ InsertTimeout
  \/ InsertGap(3, 1, 2)
  \/ InsertSpeedtest
  \/ \E type \in {"TIMEOUT"} : LogIssue(type)
  \/ CleanupOldData

InitStore == \E prior \in AgedDbs : BootAt(StoreNow, <<>>, prior)

SpecStore == InitStore /\ [][StoreNext]_vars

\* The queries of the store over a database earlier sessions filled.
QueriesNext ==
  \/ Elapse
  \/ \E minutes \in HistoryMinutes, intervalSec \in HistoryIntervals,
        idDesc \in BOOLEAN : GetPingHistory(minutes, intervalSec, idDesc)
  \/ \E minutes \in HistoryMinutes, groupBy \in {"minute", "hour"} :
       GetGapHistory(minutes, groupBy)
  \/ \E minutes \in HistoryMinutes, upAvg \in BOOLEAN :
       DbGetPingStats(minutes, upAvg)
  \/ DbGetPacketLoss

\* The row-by-row reads of the store over rows written in the same second.
TiesNext ==
  \/ Elapse
  \/ \E timeMs \in Latencies, seq \in {1}, ttl \in TTLs :
       InsertPing(timeMs, seq, ttl, FALSE)
  \/ InsertTimeout
  \/ \E minutes \in HistoryMinutes, idDesc \in BOOLEAN :
       GetPingHistory(minutes, 1, idDesc)
  \/ \E count \in 1..(MaxTied + 1) : GetRecentPings(count)

InitTies == \E prior \in TiedDbs : BootAt(StoreNow, <<>>, prior)

SpecTies == InitTies /\ [][TiesNext]_vars

InitQueries == \E prior \in RecentDbs : BootAt(StoreNow, <<>>, prior)

SpecQueries == InitQueries /\ [][QueriesNext]_vars

\* The whole program: the main process and the store.  The supervisor and
\* the speedtest runner share the clock, the files and the renderer channel
\* and no control state, and the store is called by neither, so each part
\* is checked under its own specification above.
Next ==
  \/ PingNext
  \/ ChunksNext
  \/ LifecycleNext
  \/ SpeedNext
  \/ SchedulerNext
  \/ StatsNext
  \/ StoreNext
  \/ TiesNext
  \/ QueriesNext

Spec == Init /\ [][Next]_vars

\* ================================================================ claims
NewIssues == SubSeq(issueLog', Len(issueLog) + 1, Len(issueLog'))
NewEvents == SubSeq(rendererEvents', Len(rendererEvents) + 1,
                    Len(rendererEvents'))
IssuesOf(issues, types) == SelectSeq(issues, LAMBDA e : e.type \in types)
EventsOn(events, channel) == SelectSeq(events, LAMBDA e : e.channel = channel)
SpeedEvents == EventsOn(rendererEvents, "speedtest-status")

\* C1: at most one command is in flight, and a runSpeedtest() issued while
\* one is in flight resolves with the already-running failure, launches no
\* command, emits no status event and writes no row.
C1_AtMostOneProbe ==
  [][ /\ Len(execPending') <= 1
      /\ (calls' = calls + 1 /\ Len(execPending) >= 1) =>
           /\ resolved' = Append(resolved, AlreadyRunning)
           /\ execPending' = execPending
           /\ rendererEvents' = rendererEvents
           /\ speedtestLog' = speedtestLog
           /\ issueLog' = issueLog ]_vars

\* C1: a call was rejected while a command was in flight.
C1_Witness ==
  /\ Len(execPending) = 1
  /\ resolved # <<>>
  /\ Last(resolved) = AlreadyRunning

\* C2: whenever an accepted run() has set the in-flight guard, the guard
\* becomes false again, on every exit path.
C2_GuardEventuallyCleared == speedtestRunning ~> ~speedtestRunning

\* C3: every accepted attempt writes exactly one speedtest row: the rows
\* written are the attempts accepted (one running event each) less those
\* whose command is still pending.
C3_OneRecordPerAttempt ==
  Len(speedtestLog) + Len(execPending)
    = Len(SelectSeq(SpeedEvents, LAMBDA e : e.status = "running"))

\* C4: the status events of the accepted runs are running, terminal,
\* running, terminal, ...; speedtestStatus() is true exactly between a
\* running event and its terminal event; and a running event that has no
\* terminal event yet still has the command pending whose callback, the only
\* code that emits one, will emit it.
C4_StatusSequence ==
  LET ev == SpeedEvents
  IN  /\ \A k \in 1..Len(ev) :
           IF k % 2 = 1
             THEN ev[k].status = "running"
             ELSE ev[k].status \in {"completed", "failed"}
      /\ SpeedtestStatus <=> (Len(ev) % 2 = 1)
      /\ (Len(ev) % 2 = 1) => Len(execPending) = 1

IsNumeric(text) == ParseFloat(text) # NaN

Malformed(stdout) ==
  \/ ~IsNumeric(stdout.latency)
  \/ ~IsNumeric(stdout.download)
  \/ ~IsNumeric(stdout.upload)

\* C5: a command that failed, timed out or printed malformed output (empty
\* or non-numeric columns) writes a row with server, latency, download and
\* upload absent and pingAvg kept, logs a speedtest issue, notifies
\* status=failed and resolves with success=false.
C5_MalformedIsFailure ==
  [][ \A i \in 1..Len(execPending), outcome \in ExecOutcomes :
        (ExecCallback(i, outcome)
           /\ (outcome.error \/ Malformed(outcome.stdout))) =>
          /\ Len(speedtestLog') = Len(speedtestLog) + 1
          /\ LET row == Last(speedtestLog')
             IN  /\ row.server = "N/A"
                 /\ row.latency = "N/A"
                 /\ row.download = NA
                 /\ row.upload = NA
                 /\ row.pingAvg = execPending[i].pingAvg
          /\ IssuesOf(NewIssues, {"SPEEDTEST_FAIL", "SPEEDTEST_PARSE_ERROR"})
               # <<>>
          /\ Last(rendererEvents') = StatusEvent("failed")
          /\ Last(resolved').success = FALSE ]_vars

LiveProcs == {p \in Pids : procState[p] = "running"}

\* C6: start() while Running changes nothing; start() while Stopped resets
\* lastPingTime and lastSeq, launches exactly one subprocess, arms the
\* 1-second watchdog and makes the supervisor Running.
C6_StartContract ==
  [][ StartPing =>
        IF pingProcess # 0
          THEN UNCHANGED <<pingProcess, procState, lastPingTime, lastSeq>>
          ELSE /\ lastPingTime' = clock
               /\ lastSeq' = 0
               /\ Cardinality(Spawned') = Cardinality(Spawned) + 1
               /\ PingStatus'
               /\ "watchdog" \in timers' ]_vars

Stopped == pingProcess = 0 /\ LiveProcs = {}
Running == pingProcess # 0 /\ LiveProcs = {pingProcess}

\* C7: stop() from any state leaves the supervisor Stopped with the
\* subprocess terminated and the watchdog disarmed, a second stop() changes
\* nothing, and Stopped and Running are the only states reached.
C7_StopIdempotent ==
  /\ [](Stopped \/ Running)
  /\ [][ StopPing =>
           /\ Stopped'
           /\ "watchdog" \notin timers'
           /\ (Stopped => UNCHANGED pingVars) ]_vars

\* C8: between a stop() and the next start() the supervisor writes no ping
\* row, no gap row and no TIMEOUT or PACKET_LOSS issue.
C8_NoRecordAfterStop ==
  [][ (sinceStop /\ sinceStop') =>
        /\ pingLog' = pingLog
        /\ gapLog' = gapLog
        /\ IssuesOf(NewIssues, {"TIMEOUT", "PACKET_LOSS"}) = <<>> ]_vars

\* C9: when a response arrives at second t after a previous response of the
\* same session at tPrev, a gap row {t - tPrev, seqFrom = the previous
\* lastSeq, seqTo = seq}, a TIMEOUT issue and a ping-timeout event are
\* produced if and only if t - tPrev > 2.
C9_GapThresholdStrict ==
  [][ (Len(pingLog') = Len(pingLog) + 1 /\ arrived) =>
        LET t     == Last(pingLog').ts
            s     == Last(pingLog').seq
            tPrev == Last(pingLog).ts
            what  == [n |-> t - tPrev, seqFrom |-> lastSeq, seqTo |-> s]
            tmo   == IssuesOf(NewIssues, {"TIMEOUT"})
            evs   == EventsOn(NewEvents, "ping-timeout")
        IN  IF t - tPrev > 2
              THEN /\ gapLog' = Append(gapLog,
                                       [ts |-> t, gap |-> t - tPrev,
                                        seqFrom |-> lastSeq, seqTo |-> s])
                   /\ Len(tmo) = 1 /\ Len(evs) = 1
                   /\ [n |-> tmo[1].n, seqFrom |-> tmo[1].seqFrom,
                       seqTo |-> tmo[1].seqTo] = what
                   /\ [n |-> evs[1].n, seqFrom |-> evs[1].seqFrom,
                       seqTo |-> evs[1].seqTo] = what
              ELSE /\ gapLog' = gapLog
                   /\ tmo = <<>>
                   /\ evs = <<>> ]_vars

\* C9: two responses of one session arrived 3 s apart, and the gap row
\* written for them.
C9_Witness ==
  /\ Len(pingLog) = 2
  /\ arrived
  /\ pingLog[1].seq > 0
  /\ pingLog[2].ts - pingLog[1].ts = 3
  /\ gapLog = <<[ts |-> pingLog[2].ts, gap |-> 3,
                 seqFrom |-> pingLog[1].seq, seqTo |-> pingLog[2].seq]>>

\* C10: a response with sequence s logs a PACKET_LOSS issue and notifies
\* packet-loss if and only if lastSeq > 0 and s > lastSeq + 1, and the number
\* lost is s - (lastSeq + 1).
C10_PacketLoss ==
  [][ (Len(pingLog') = Len(pingLog) + 1) =>
        LET s    == Last(pingLog').seq
            what == [n |-> s - (lastSeq + 1), seqFrom |-> lastSeq,
                     seqTo |-> s]
            loss == IssuesOf(NewIssues, {"PACKET_LOSS"})
            evs  == EventsOn(NewEvents, "packet-loss")
        IN  IF lastSeq > 0 /\ s > lastSeq + 1
              THEN /\ Len(loss) = 1 /\ Len(evs) = 1
                   /\ [n |-> loss[1].n, seqFrom |-> loss[1].seqFrom,
                       seqTo |-> loss[1].seqTo] = what
                   /\ [n |-> evs[1].n, seqFrom |-> evs[1].seqFrom,
                       seqTo |-> evs[1].seqTo] = what
              ELSE loss = <<>> /\ evs = <<>> ]_vars

\* C10: a response that skipped one sequence number was reported as one
\* packet lost, after an in-order response that reported none.
C10_Witness ==
  /\ Len(pingLog) = 2
  /\ pingLog[1].seq = 1
  /\ pingLog[2].seq = 3
  /\ IssuesOf(issueLog, {"PACKET_LOSS"})
       = <<[type |-> "PACKET_LOSS", n |-> 1, seqFrom |-> 1, seqTo |-> 3]>>

\* C11: while the supervisor is Running, every second that passes with more
\* than 1.5 s since the last arrival (on the whole-second clock: 2 s or more)
\* adds exactly one timeout-flagged ping row and notifies one timeout marker,
\* and leaves lastPingTime as it was.
C11_WatchdogMarkers ==
  [][ (clock' = clock + 1 /\ Running /\ clock' - lastPingTime >= 2) =>
        /\ Len(pingLog') = Len(pingLog) + 1
        /\ Len(EventsOn(NewEvents, "ping-timeout")) = 1
        /\ lastPingTime' = lastPingTime ]_vars

\* C12: when the subprocess the supervisor holds ends on its own or fails to
\* spawn, a PING_ERROR issue is logged, the handle is cleared and the
\* supervisor is Stopped; and a subprocess is launched only by an explicit
\* start (the ping-start request or the start at application launch).
C12_ProbeEndHandled ==
  [][ /\ \A p \in Pids :
           (/\ pingProcess = p
            /\ procState[p] = "running"
            /\ procState'[p] \in {"closed", "errored"}) =>
             /\ IssuesOf(NewIssues, {"PING_ERROR"}) # <<>>
             /\ pingProcess' = 0
             /\ Stopped'
      /\ (Spawned' # Spawned) => (StartPing \/ AppReady) ]_vars

\* C19: the first response handled after a start() has no previous arrival
\* and writes no gap row and no TIMEOUT issue, however long after the start
\* it arrives.
C19_FirstSampleNoGap ==
  [][ (Len(pingLog') = Len(pingLog) + 1 /\ ~arrived) =>
        /\ gapLog' = gapLog
        /\ IssuesOf(NewIssues, {"TIMEOUT"}) = <<>> ]_vars

\* C20: for a response that follows another of the same session, the gap
\* outputs appear exactly when it is more than 2 s late and the loss outputs
\* exactly when it skips sequence numbers, each whatever the other test
\* says; when both hold, both are reported with the values each reports
\* alone.
C20_Independent ==
  [][ (Len(pingLog') = Len(pingLog) + 1 /\ arrived) =>
        LET t    == Last(pingLog').ts
            s    == Last(pingLog').seq
            late == t - Last(pingLog).ts > 2
            skip == lastSeq > 0 /\ s > lastSeq + 1
            tmo  == IssuesOf(NewIssues, {"TIMEOUT"})
            loss == IssuesOf(NewIssues, {"PACKET_LOSS"})
        IN  /\ (Len(gapLog') = Len(gapLog) + 1) <=> late
            /\ ~late => gapLog' = gapLog
            /\ Len(tmo) = (IF late THEN 1 ELSE 0)
            /\ Len(EventsOn(NewEvents, "ping-timeout"))
                 = (IF late THEN 1 ELSE 0)
            /\ Len(loss) = (IF skip THEN 1 ELSE 0)
            /\ Len(EventsOn(NewEvents, "packet-loss"))
                 = (IF skip THEN 1 ELSE 0)
            /\ (late /\ skip) =>
                 /\ Last(gapLog') = [ts |-> t, gap |-> t - Last(pingLog).ts,
                                     seqFrom |-> lastSeq, seqTo |-> s]
                 /\ tmo[1].n = t - Last(pingLog).ts
                 /\ loss[1].n = s - (lastSeq + 1) ]_vars

\* C20: a response arrived 3 s after the previous one and skipped a sequence
\* number: a gap row, a TIMEOUT issue and a PACKET_LOSS issue were written.
C20_Witness ==
  /\ Len(pingLog) = 2
  /\ arrived
  /\ pingLog[2].ts - pingLog[1].ts = 3
  /\ pingLog[1].seq = 1
  /\ pingLog[2].seq = 3
  /\ Len(gapLog) = 1
  /\ IssuesOf(issueLog, {"TIMEOUT", "PACKET_LOSS"})
       = <<[type |-> "TIMEOUT", n |-> 3, seqFrom |-> 1, seqTo |-> 3],
           [type |-> "PACKET_LOSS", n |-> 1, seqFrom |-> 1, seqTo |-> 3]>>

\* C20: a response skipped a sequence number within 2 s: loss, no gap row.
C20_LossOnly ==
  /\ Len(pingLog) = 2
  /\ arrived
  /\ pingLog[2].ts - pingLog[1].ts <= 2
  /\ gapLog = <<>>
  /\ Len(IssuesOf(issueLog, {"PACKET_LOSS"})) = 1

\* C20: a response in sequence order arrived 3 s late: a gap row, no loss.
C20_GapOnly ==
  /\ Len(pingLog) = 2
  /\ arrived
  /\ pingLog[1].seq > 0
  /\ pingLog[2].seq = pingLog[1].seq + 1
  /\ pingLog[2].ts - pingLog[1].ts = 3
  /\ Len(gapLog) = 1
  /\ IssuesOf(issueLog, {"PACKET_LOSS"}) = <<>>

\* C20: a response in sequence order within 2 s: neither.
C20_Neither ==
  /\ Len(pingLog) = 2
  /\ arrived
  /\ pingLog[1].seq > 0
  /\ pingLog[2].seq = pingLog[1].seq + 1
  /\ gapLog = <<>>
  /\ issueLog = <<>>

\* The k-th smallest of the values xs, by rank.
Kth(xs, k) ==
  CHOOSE v \in Range(xs) :
    /\ Cardinality({i \in 1..Len(xs) : xs[i] < v}) < k
    /\ k <= Cardinality({i \in 1..Len(xs) : xs[i] <= v})

\* Twice the standard median of xs: the middle value counted twice when the
\* count is odd, the sum of the two central values when it is even.
StdMedian2(xs) ==
  LET n == Len(xs)
  IN  IF n % 2 = 1
        THEN 2 * Kth(xs, (n + 1) \div 2)
        ELSE Kth(xs, n \div 2) + Kth(xs, n \div 2 + 1)

Dist(a, b) == IF a >= b THEN a - b ELSE b - a

\* C14 as stated: for a non-empty list of in-window latencies the median of
\* get-ping-stats is the standard median, count is their number, and min and
\* max are the smallest and the largest of them.
C14_MedianStandard ==
  [][ (reply' # reply /\ reply'.q = "get-ping-stats") =>
        LET xs == PingsSince(clock - reply'.arg * 60)
            r  == reply'.value
        IN  xs # <<>> =>
              /\ 2 * r.med = StdMedian2(xs)
              /\ r.count = Len(xs)
              /\ 10 * r.min = Min(Range(xs))
              /\ 10 * r.max = Max(Range(xs)) ]_vars

\* C14 amended: the median of get-ping-stats is the standard median rounded
\* to one decimal place (within 0.05 ms of it), min and max are the smallest
\* and the largest latency rounded to a whole ms (within 0.5 ms), and count
\* is the number of latencies.
C14_MedianRounded ==
  [][ (reply' # reply /\ reply'.q = "get-ping-stats") =>
        LET xs == PingsSince(clock - reply'.arg * 60)
            r  == reply'.value
        IN  xs # <<>> =>
              /\ Dist(2 * r.med, StdMedian2(xs)) <= 1
              /\ r.count = Len(xs)
              /\ Dist(10 * r.min, Min(Range(xs))) <= 5
              /\ Dist(10 * r.max, Max(Range(xs))) <= 5 ]_vars

\* C14: get-ping-stats answered for two latencies whose mean has a second
\* decimal and whose smallest is not a whole number of ms.
C14_Witness ==
  /\ reply.q = "get-ping-stats"
  /\ LET xs == PingsSince(clock - reply.arg * 60)
     IN  /\ Len(xs) = 2
         /\ reply.value.count = 2
         /\ 2 * reply.value.med # StdMedian2(xs)
         /\ 10 * reply.value.max # Max(Range(xs))

\* C15: the packet-loss answer over the recorded samples has
\* total = last sequence - first sequence + 1, lost = max(0, total - count)
\* and percent = lost / total * 100 (to one decimal), and percent = 0 when
\* total is 0.
C15_PacketLossFormula ==
  [][ (reply' # reply /\ reply'.q = "get-packet-loss") =>
        LET r == reply'.value
            n == Len(pingLog)
        IN  n > 0 =>
              LET expected == Last(pingLog).seq - pingLog[1].seq + 1
                  lost     == IF expected - n > 0 THEN expected - n ELSE 0
              IN  /\ r.total = expected
                  /\ r.lost = lost
                  /\ r.percent =
                       (IF expected = 0 \/ lost = 0
                          THEN 0
                          ELSE (2000 * lost + expected) \div (2 * expected))
        ]_vars

\* C13: every ping row flagged as a timeout has no latency, no sequence and
\* no ttl, whatever insert operations of the store were called.
C13_TimeoutRowsEmpty ==
  \A i \in 1..Len(db.pings) :
    db.pings[i].is_timeout = 1 =>
      /\ db.pings[i].time_ms = NULL
      /\ db.pings[i].seq = NULL
      /\ db.pings[i].ttl = NULL

C18_NewestBucketsKept ==
  [][ (/\ reply' # reply
       /\ reply'.q \in {"getPingHistory", "getGapHistory"}
       /\ reply'.arg.interval > 1) =>
        LET out    == reply'.value
            w      == reply'.arg.interval
            table  == IF reply'.q = "getPingHistory" THEN db.pings ELSE db.gaps
            cap    == IF reply'.q = "getPingHistory" THEN 120 ELSE 60
            win    == {r \in Range(table) :
                         r.timestamp >= clock - reply'.arg.minutes * 60}
            own(r) == r.timestamp - (r.timestamp % w)
            all    == {own(r) : r \in win}
            starts == {out[k].timestamp : k \in 1..Len(out)}
        IN  /\ Len(out) = Min({cap, Cardinality(all)})
            /\ \A k \in 1..(Len(out) - 1) :
                 out[k].timestamp < out[k + 1].timestamp
            /\ \A b \in all \ starts : \A kept \in starts : b < kept
            /\ win # {} =>
                 LET newest == CHOOSE r \in win :
                                 \A other \in win :
                                   other.timestamp <= r.timestamp
                 IN  own(newest) \in starts ]_vars
\* The ChildProcess the latest startPing() spawned; 0 before the first.
LatestProc == Cardinality(Spawned)

\* C27: under every interleaving of start(), stop() and the 'close' and
\* 'error' notifications of earlier subprocesses, at most one ping
\* subprocess is alive.
C27_AtMostOneAlive == Cardinality(LiveProcs) <= 1

\* C28: ping-status answers true exactly when the subprocess of the latest
\* start() is alive and has not been stopped.
C28_StatusAccurate ==
  PingStatus <=> (LatestProc # 0 /\ procState[LatestProc] = "running")
\* The rows of the responses among `lines`, in their order, written now.
SamplesOf(lines) ==
  LET responses == SelectSeq(lines, LAMBDA l : l.matches)
  IN  [i \in 1..Len(responses) |->
         [ts |-> clock, time |-> responses[i].time, seq |-> responses[i].seq,
          ttl |-> responses[i].ttl]]

\* C21: every line of output that matches the response pattern yields
\* exactly one row of the ping file, in the order of the lines, also when a
\* single 'data' notification carries several lines.
C21_EveryLineSampled ==
  [][ \A p \in Pids, lines \in Chunks :
        Data(p, lines) => pingLog' = pingLog \o SamplesOf(lines) ]_vars

\* C22: once a response with sequence s is handled at second t,
\* lastPingTime = t and lastSeq = s whether or not a gap or a loss was
\* detected and also when s is below the previous lastSeq, and exactly one
\* ping-result event is sent for it, after the ping-timeout and packet-loss
\* events of the same response.
C22_SampleUpdates ==
  [][ Len(pingLog') = Len(pingLog) + 1 =>
        LET row == Last(pingLog')
        IN  /\ lastPingTime' = row.ts
            /\ row.ts = clock
            /\ lastSeq' = row.seq
            /\ Len(EventsOn(NewEvents, "ping-result")) = 1
            /\ Last(NewEvents).channel = "ping-result"
            /\ Last(NewEvents).seqTo = row.seq
            /\ Last(NewEvents).n = row.time ]_vars

\* C22: a response with a lower sequence than the one before it was
\* handled after a gap, and the state and the last event are its own.
C22_Witness ==
  /\ Len(pingLog) = 2
  /\ pingLog[2].seq < pingLog[1].seq
  /\ lastSeq = pingLog[2].seq
  /\ lastPingTime = pingLog[2].ts
  /\ gapLog # <<>>
  /\ Last(gapLog).ts = pingLog[2].ts
  /\ Last(rendererEvents).channel = "ping-result"
  /\ rendererEvents[Len(rendererEvents) - 1].channel = "ping-timeout"
\* stopSpeedtestScheduler() has been called: the scheduler is started once,
\* when the app is ready, and only stopSpeedtestScheduler() clears its
\* periodic timer.
SchedulerStopped == appReady /\ "speedtestTimer" \notin timers

\* C29: once stopSpeedtestScheduler() has been called, neither the periodic
\* timer nor the 10-second warm-up timer invokes runSpeedtest().
C29_NoRunAfterStop ==
  [][ SchedulerStopped =>
        \A headerFails \in BOOLEAN :
          ~WarmupFire(headerFails) /\ ~IntervalFire(headerFails) ]_vars
\* C30: whatever the sequence numbers of the recorded samples (restarted,
\* repeated, out of order), the packet-loss result has total >= 1 when a
\* sample exists, 0 <= lost <= total and a percentage within 0..100 that is
\* a number (percent is in tenths of a percent).
C30_PacketLossBounds ==
  reply.q = "get-packet-loss" =>
    /\ pingLog # <<>> => reply.value.total >= 1
    /\ 0 <= reply.value.lost
    /\ reply.value.lost <= reply.value.total
    /\ reply.value.percent # NaN
    /\ 0 <= reply.value.percent
    /\ reply.value.percent <= 1000
\* C23: the count of get-ping-stats is the number of stored samples whose
\* timestamp lies within the last `minutes` minutes, also when that window
\* reaches back over midnight.
C23_WindowCount ==
  reply.q = "get-ping-stats" =>
    reply.value.count =
      Len(SelectSeq(pingLog, LAMBDA r : r.ts >= clock - reply.arg * 60))
\* The realtime history just returned holds the min(120, n) most recent of
\* the n in-window rows, oldest first, a real sample shown with
\* avg = min = max = its latency (rounded to whole ms if `rounded`) and no
\* timeout flag, a marker with zeros and the flag.
RealtimeReturned(rounded) ==
  (/\ reply' # reply
   /\ reply'.q = "getPingHistory"
   /\ reply'.arg.interval <= 1) =>
    LET out  == reply'.value
        rows == SelectSeq(db.pings,
                          LAMBDA r : r.timestamp
                                       >= clock - reply'.arg.minutes * 60)
        n    == Len(rows)
        k    == Min({120, n})
        shown(r) == IF rounded THEN ((r.time_ms + 5) \div 10) * 10
                               ELSE r.time_ms
    IN  /\ Len(out) = k
        /\ \A i \in 1..k :
             LET r == rows[n - k + i]
             IN  /\ out[i].timestamp = r.timestamp
                 /\ out[i].min = out[i].avg
                 /\ out[i].max = out[i].avg
                 /\ out[i].timeout <=> r.is_timeout = 1
                 /\ IF r.is_timeout = 1
                      THEN out[i].avg = 0
                      ELSE out[i].avg * 10 = shown(r)

\* C24 as stated: in realtime mode every real sample is returned with
\* avg = min = max = its latency.
C24_RealtimeRaw == [][RealtimeReturned(FALSE)]_vars

\* C24: in realtime mode (interval <= 1 s) the history is one point per
\* stored row, the min(120, n) most recent of the n in-window rows in
\* chronological order, a real sample with avg = min = max = its latency
\* rounded to the nearest whole millisecond and timeout false, a marker with
\* avg = min = max = 0 and timeout true.
C24_RealtimeRounded == [][RealtimeReturned(TRUE)]_vars

\* C24: the realtime history of a window of more than 120 rows was
\* returned: 120 points, a marker among them and a sample whose latency is
\* no whole number of milliseconds.
C24_Witness ==
  /\ reply.q = "getPingHistory"
  /\ reply.arg.interval = 1
  /\ Len(db.pings) > PING_HISTORY_LIMIT
  /\ Len(reply.value) = PING_HISTORY_LIMIT
  /\ reply.value[1].timestamp = db.pings[Len(db.pings) - 119].timestamp
  /\ \E i \in 1..Len(reply.value) : reply.value[i].timeout
  /\ \E i \in 1..Len(reply.value), j \in 1..Len(db.pings) :
       /\ db.pings[j].timestamp = reply.value[i].timestamp
       /\ db.pings[j].is_timeout = 0
       /\ db.pings[j].time_ms % 10 # 0
       /\ ~reply.value[i].timeout
\* C25: the realtime ping history and the recent samples list the rows
\* ascending by timestamp, rows of one second in the order in which they
\* were inserted (the order of their ids): each is the tail of the stored
\* rows in that order.
C25_TiesInInsertionOrder ==
  [][ /\ (/\ reply' # reply
          /\ reply'.q = "getPingHistory"
          /\ reply'.arg.interval <= 1) =>
           LET out  == reply'.value
               rows == SelectSeq(db.pings,
                                 LAMBDA r : r.timestamp >=
                                              clock - reply'.arg.minutes * 60)
               from == Len(rows) - Len(out)
           IN  \A i \in 1..Len(out) :
                 /\ from + i \in 1..Len(rows)
                 /\ out[i].timestamp = rows[from + i].timestamp
                 /\ out[i].timeout <=> rows[from + i].is_timeout = 1
                 /\ ~out[i].timeout =>
                      out[i].avg * 10 = rows[from + i].time_ms
      /\ (reply' # reply /\ reply'.q = "getRecentPings") =>
           LET out  == reply'.value
               from == Len(db.pings) - Len(out)
           IN  \A i \in 1..Len(out) :
                 /\ from + i \in 1..Len(db.pings)
                 /\ out[i].ts = db.pings[from + i].timestamp
                 /\ out[i].seq = db.pings[from + i].seq
                 /\ out[i].is_timeout = db.pings[from + i].is_timeout ]_vars
\* The latencies of the samples the statistics just returned were taken
\* over: the rows of the window that are not timeouts.
StatsWindow ==
  LET rows == SelectSeq(db.pings,
                        LAMBDA r : /\ r.timestamp >= clock - reply'.arg * 60
                                   /\ r.is_timeout = 0)
  IN  [i \in 1..Len(rows) |-> rows[i].time_ms]

====
